---- MODULE Spec2Model ----
(***************************************************************************)
(* A model of pkg/kubectl/resource_printer.go: the printer factory         *)
(* GetPrinter, the versioned printers (JSON, YAML, template) and the       *)
(* type-dispatched HumanReadablePrinter with its handler registry, its     *)
(* last-printed type and the tabwriter each PrintObj call wraps around the *)
(* caller's writer.                                                        *)
(*                                                                         *)
(* Abstractions: a reflect.Type is the string naming it; a line written to *)
(* the tabwriter is a record (header or data row) with the widths of the   *)
(* texts of its tab-separated cells; a flush makes the writes the          *)
(* tabwriter makes (one per cell text, per piece of padding and per        *)
(* newline, and a zero-length write at its end), of which the model keeps  *)
(* the order and the number, and a write the writer rejects writes         *)
(* nothing.                                                                *)
(***************************************************************************)
EXTENDS Naturals, Sequences, FiniteSets

VARIABLES h, out, last, hist, gp, vp, mode, inst, th, ev, lr

vars == <<h, out, last, hist, gp, vp, mode, inst, th, ev, lr>>

\* The zero value of a pointer, interface or error.
Nil == "nil"

(***************************************************************************)
(* Bounds of the model.                                                    *)
(***************************************************************************)
\* Handler and PrintObj calls on one HumanReadablePrinter in a session.
MaxOps == 3
\* Items in a list object.
MaxItems == 2
\* PrintObj calls of one thread in the concurrent specification.
MaxThreadCalls == 2
\* Items in a list handed to a list render function on its own.
MaxListItems == 3

(***************************************************************************)
(* Column header sequences (resource_printer.go:216-221).                  *)
(***************************************************************************)
podColumns == <<"NAME", "IMAGE(S)", "HOST", "LABELS", "STATUS">>
replicationControllerColumns == <<"NAME", "IMAGE(S)", "SELECTOR", "REPLICAS">>
serviceColumns == <<"NAME", "LABELS", "SELECTOR", "IP", "PORT">>
minionColumns == <<"NAME">>
statusColumns == <<"STATUS">>
eventColumns == <<"NAME", "KIND", "STATUS", "REASON", "MESSAGE">>

(***************************************************************************)
(* Render functions as reflect sees them: the kind of the value, the types *)
(* of the parameters and of the results, and the function it is.           *)
(***************************************************************************)
Func(impl, ins, outs) == [kind |-> "func", ins |-> ins, outs |-> outs, impl |-> impl]

printPodFn == Func("printPod", <<"*api.Pod", "io.Writer">>, <<"error">>)
printPodListFn == Func("printPodList", <<"*api.PodList", "io.Writer">>, <<"error">>)
printReplicationControllerFn ==
    Func("printReplicationController", <<"*api.ReplicationController", "io.Writer">>, <<"error">>)
printReplicationControllerListFn ==
    Func("printReplicationControllerList", <<"*api.ReplicationControllerList", "io.Writer">>, <<"error">>)
printServiceFn == Func("printService", <<"*api.Service", "io.Writer">>, <<"error">>)
printServiceListFn == Func("printServiceList", <<"*api.ServiceList", "io.Writer">>, <<"error">>)
printMinionFn == Func("printMinion", <<"*api.Minion", "io.Writer">>, <<"error">>)
printMinionListFn == Func("printMinionList", <<"*api.MinionList", "io.Writer">>, <<"error">>)
printStatusFn == Func("printStatus", <<"*api.Status", "io.Writer">>, <<"error">>)
printEventFn == Func("printEvent", <<"*api.Event", "io.Writer">>, <<"error">>)
printEventListFn == Func("printEventList", <<"*api.EventList", "io.Writer">>, <<"error">>)

\* Render functions a caller may register: for a type without a default
\* handler, and for a type that has one.
printEndpointsFn == Func("printEndpoints", <<"*api.Endpoints", "io.Writer">>, <<"error">>)
printEndpointsFailingFn ==
    Func("printEndpointsFailing", <<"*api.Endpoints", "io.Writer">>, <<"error">>)
printServiceShortFn == Func("printServiceShort", <<"*api.Service", "io.Writer">>, <<"error">>)

\* Values that do not have the shape func(ObjectType, io.Writer) error.
notAFunction == [kind |-> "string", ins |-> <<>>, outs |-> <<>>, impl |-> "notAFunction"]
threeParams ==
    Func("threeParams", <<"*api.Service", "io.Writer", "bool">>, <<"error">>)
oneParam == Func("oneParam", <<"*api.Service">>, <<"error">>)
twoResults == Func("twoResults", <<"*api.Service", "io.Writer">>, <<"int", "error">>)
wrongWriter == Func("wrongWriter", <<"*api.Service", "*bytes.Buffer">>, <<"error">>)
wrongResult == Func("wrongResult", <<"*api.Endpoints", "io.Writer">>, <<"bool">>)

(***************************************************************************)
(* text/tabwriter, as PrintObj uses it: NewWriter(output, 20, 5, 3, ' ',   *)
(* 0).  A line is a record with the widths of the texts of its cells.  buf *)
(* holds the lines not yet flushed; written what the caller's writer       *)
(* accepted, line by line, a line the writer accepted only the first cut   *)
(* writes of being of kind "partial"; attempts counts the writes made to   *)
(* the caller's writer, which rejects every write from its failFrom-th on  *)
(* (0: it rejects none); lost counts the buffered lines a flush did not    *)
(* write completely; input records every line handed to Write; flushes     *)
(* counts the calls of Flush; err is the result of the last Write or       *)
(* Flush.  A render function called on its own may be handed any           *)
(* io.Writer: direct marks a writer without a buffer, where each Write     *)
(* (one fmt.Fprintf) is one write of the caller's writer.                  *)
(***************************************************************************)
errWrite == "write error"

\* The parameters of tabwriter.NewWriter(output, 20, 5, 3, ' ', 0) that the
\* writes depend on, and the length of the tabwriter's padding array.
minwidth == 20
padding == 3
padbytes == 8

NewWriter(failFrom) ==
    [buf |-> <<>>, written |-> <<>>, attempts |-> 0, failFrom |-> failFrom,
     lost |-> 0, input |-> <<>>, flushes |-> 0, err |-> Nil, direct |-> FALSE]

\* An io.Writer that is no tabwriter.
NewDirectWriter(failFrom) == [NewWriter(failFrom) EXCEPT !.direct = TRUE]

\* The caller's io.Writer: whether it accepts its k-th write.
Accepts(failFrom, k) == failFrom = 0 \/ k < failFrom

\* How many of n writes in a row the caller's writer accepts after it has
\* seen attempts writes.
Accepted(failFrom, attempts, n) ==
    IF failFrom = 0 THEN n
    ELSE IF failFrom <= attempts + 1 THEN 0
    ELSE IF failFrom - 1 - attempts < n THEN failFrom - 1 - attempts
    ELSE n

\* One write of the caller's writer made by a flush: part of buffered line
\* line, the text of a cell, a piece of padding or the newline; "end" is the
\* zero-length write that ends every flush.
Chunk(line, kind) == [line |-> line, kind |-> kind]

\* writeN: n bytes of padding go out in pieces of at most 8 bytes.
writeN(line, n) == [k \in 1..((n + padbytes - 1) \div padbytes) |-> Chunk(line, "pad")]

\* writeLines for cell j of a line: the text unless the cell is empty, and the
\* padding when the width of the cell's column is known.
CellWrites(line, cells, widths, j) ==
    (IF cells[j] > 0 THEN <<Chunk(line, "text")>> ELSE <<>>)
    \o (IF j <= Len(widths) THEN writeN(line, widths[j] - cells[j]) ELSE <<>>)

RECURSIVE LineWrites(_, _, _, _)
LineWrites(line, cells, widths, j) ==
    IF j > Len(cells) THEN <<>>
    ELSE CellWrites(line, cells, widths, j) \o LineWrites(line, cells, widths, j + 1)

\* writeLines(pos, line0, line1): the lines line0 .. line1 - 1, each followed
\* by a newline; the last line of the tabwriter is the one still open, which
\* is empty at every flush here and gives the zero-length write.
RECURSIVE writeLines(_, _, _, _)
writeLines(lines, widths, line0, line1) ==
    IF line0 >= line1 THEN <<>>
    ELSE LineWrites(line0, lines[line0].cells, widths, 1)
         \o <<Chunk(line0, IF line0 = Len(lines) THEN "end" ELSE "nl")>>
         \o writeLines(lines, widths, line0 + 1, line1)

\* Whether a line has a cell in the column after those of widths: its last
\* cell belongs to no column.
InColumn(line, widths) == Len(widths) + 1 < Len(line.cells)

\* The end of the column block that starts at line this.
RECURSIVE BlockEnd(_, _, _, _)
BlockEnd(lines, widths, this, line1) ==
    IF this >= line1 \/ ~InColumn(lines[this], widths) THEN this
    ELSE BlockEnd(lines, widths, this + 1, line1)

\* The width of the column of a block: minwidth, or the widest text plus the
\* padding.
Max(a, b) == IF a > b THEN a ELSE b

RECURSIVE BlockWidth(_, _, _, _)
BlockWidth(lines, column, this, end) ==
    IF this >= end THEN minwidth
    ELSE Max(lines[this].cells[column] + padding,
             BlockWidth(lines, column, this + 1, end))

\* format(pos, line0, line1): the writes of a flush, in order; this is the
\* loop variable.  FormatBlock is the body of the loop for a line that starts
\* a column block ending before line end: the lines not yet written, the
\* block with the width of its column pushed, and the rest of the loop.
RECURSIVE Format(_, _, _, _, _)
RECURSIVE FormatBlock(_, _, _, _, _, _)
FormatBlock(lines, widths, line0, this, line1, end) ==
    writeLines(lines, widths, line0, this)
    \o Format(lines, Append(widths, BlockWidth(lines, Len(widths) + 1, this, end)),
              this, this, end)
    \o Format(lines, widths, end, end + 1, line1)

Format(lines, widths, line0, this, line1) ==
    IF this >= line1 THEN writeLines(lines, widths, line0, line1)
    ELSE IF InColumn(lines[this], widths)
         THEN FormatBlock(lines, widths, line0, this, line1,
                          BlockEnd(lines, widths, this, line1))
         ELSE Format(lines, widths, line0, this + 1, line1)

\* The line still open at a flush.
OpenLine == [kind |-> "open", cols |-> <<>>, of |-> Nil, idx |-> 0, ncells |-> 0,
             cells |-> <<>>, cut |-> 0]

\* Of the first k writes of a flush: the lines written with their newline,
\* and the writes made of the line after them.
LinesDone(chunks, k) == Cardinality({i \in 1..k : chunks[i].kind = "nl"})

CutOf(chunks, k, done) ==
    Cardinality({i \in 1..k : chunks[i].line = done + 1 /\ chunks[i].kind # "end"})

\* What the caller's writer holds of a line of which it accepted cut writes.
Partial(buf, done, cut) ==
    IF cut > 0 THEN <<[buf[done + 1] EXCEPT !.kind = "partial", !.cut = cut]>> ELSE <<>>

\* The tabwriter after a flush of n writes of which the caller's writer
\* accepted the first k, done lines completely and cut writes of the next
\* line: the buffer is reset in any case.
Flushed(tw, n, k, done, cut) ==
    [tw EXCEPT !.buf = <<>>,
               !.written = @ \o SubSeq(tw.buf, 1, done) \o Partial(tw.buf, done, cut),
               !.attempts = IF k < n THEN @ + k + 1 ELSE @ + k,
               !.lost = @ + Len(tw.buf) - done,
               !.flushes = @ + 1,
               !.err = IF k < n THEN errWrite ELSE Nil]

FlushDone(tw, chunks, k, done) == Flushed(tw, Len(chunks), k, done, CutOf(chunks, k, done))

FlushUpTo(tw, chunks, k) == FlushDone(tw, chunks, k, LinesDone(chunks, k))

\* The writes of a flush go to the caller's writer until it rejects one, which
\* ends the flush with the error.
FlushWrites(tw, chunks) ==
    FlushUpTo(tw, chunks, Accepted(tw.failFrom, tw.attempts, Len(chunks)))

\* Writer.Flush: format() over the buffered lines and the open line.
Flush(tw) == FlushWrites(tw, Format(Append(tw.buf, OpenLine), <<>>, 1, 1, Len(tw.buf) + 2))

\* A Write of a direct writer: one write of the caller's writer.
DirectWrite(tw, line) ==
    LET ok == Accepts(tw.failFrom, tw.attempts + 1)
    IN  [tw EXCEPT !.input = Append(@, line),
                   !.written = IF ok THEN Append(@, line) ELSE @,
                   !.attempts = @ + 1,
                   !.lost = IF ok THEN @ ELSE @ + 1,
                   !.err = IF ok THEN Nil ELSE errWrite]

\* Writer.Write of one newline-terminated line (one fmt.Fprintf): the line is
\* buffered, and a line of a single cell ends a column block, which flushes.
Write(tw, line) ==
    LET t1 == [tw EXCEPT !.buf = Append(@, line), !.input = Append(@, line), !.err = Nil]
    IN  IF tw.direct THEN DirectWrite(tw, line)
        ELSE IF line.ncells = 1 THEN Flush(t1) ELSE t1

\* The number of cells of strings.Join(columnNames, "\t") + "\n".
JoinCells(columnNames) == IF Len(columnNames) = 0 THEN 1 ELSE Len(columnNames)

HeaderLine(columnNames) ==
    [kind |-> "header", cols |-> columnNames, of |-> Nil, idx |-> 0,
     ncells |-> JoinCells(columnNames),
     cells |-> IF Len(columnNames) = 0 THEN <<0>>
               ELSE [j \in 1..Len(columnNames) |-> Len(columnNames[j])],
     cut |-> 0]

\* The widths of the cells a render function formats.  The objects of the
\* model have a name of two characters and the zero value in every other
\* field: no labels, selector or images, no host ("<unassigned>"), an empty
\* status, port 0 and 0 replicas.
RowCells(by) ==
    CASE by = "printPod" -> <<2, 0, 12, 0, 0>>
      [] by = "printReplicationController" -> <<2, 0, 0, 1>>
      [] by = "printService" -> <<2, 0, 0, 0, 1>>
      [] by = "printMinion" -> <<2>>
      [] by = "printStatus" -> <<0>>
      [] by = "printEvent" -> <<2, 0, 0, 0, 0>>
      [] by = "printEndpoints" -> <<2, 0>>
      [] by = "printEndpointsFailing" -> <<2, 0>>
      [] by = "printServiceShort" -> <<2, 1>>
      [] OTHER -> <<7, 4>>

RowLine(by, idx, ncells) ==
    [kind |-> "row", cols |-> <<>>, of |-> by, idx |-> idx, ncells |-> ncells,
     cells |-> RowCells(by), cut |-> 0]

(***************************************************************************)
(* HumanReadablePrinter: handlerMap is a Go map, a function from the       *)
(* registered type identities to their handlerEntry.                       *)
(***************************************************************************)
NilValue == [kind |-> "invalid", ins |-> <<>>, outs |-> <<>>, impl |-> Nil]

NoEntry == [columns |-> <<>>, printFunc |-> NilValue]

\* h.handlerMap[t]: the zero value (a nil *handlerEntry) for an absent key.
Lookup(p, t) == IF t \in DOMAIN p.handlerMap THEN p.handlerMap[t] ELSE NoEntry

errNotAFunction == "invalid print handler. not a function."
errArity == "invalid print handler. Must accept 2 parameters and return 1 value."
errSignature == "invalid print handler. The expected signature is: func handler(obj, w io.Writer) error"

\* Mutant: the parameter and result counts are compared with < instead of !=.
validateMinArity(printFunc) ==
    IF printFunc.kind # "func" THEN errNotAFunction
    ELSE IF Len(printFunc.ins) < 2 \/ Len(printFunc.outs) < 1 THEN errArity
    ELSE IF printFunc.ins[2] # "io.Writer" \/ printFunc.outs[1] # "error" THEN errSignature
    ELSE Nil

validatePrintHandlerFunc(printFunc) ==
    IF printFunc.kind # "func" THEN errNotAFunction
    ELSE IF Len(printFunc.ins) # 2 \/ Len(printFunc.outs) # 1 THEN errArity
    ELSE IF printFunc.ins[2] # "io.Writer" \/ printFunc.outs[1] # "error" THEN errSignature
    ELSE Nil

\* Mutant: an entry already registered for the type is kept.
SetEntryIfAbsent(m, objType, entry) ==
    [t \in DOMAIN m \cup {objType} |-> IF t \in DOMAIN m THEN m[t] ELSE entry]

\* h.handlerMap[objType] = &handlerEntry{columns, printFunc}
SetEntry(m, objType, entry) ==
    [t \in DOMAIN m \cup {objType} |-> IF t = objType THEN entry ELSE m[t]]

\* Handler: the printer after the call and the error returned.
\* Mutant: replacing the entry of the last-printed type forgets that type.
HandlerForgetsLastType(p, columns, printFunc) ==
    LET err == validatePrintHandlerFunc(printFunc)
    IN  IF err # Nil
        THEN [p |-> p, err |-> err]
        ELSE [p |-> [p EXCEPT !.handlerMap =
                        SetEntry(@, printFunc.ins[1],
                                 [columns |-> columns, printFunc |-> printFunc]),
                                !.lastType =
                        IF @ = printFunc.ins[1] THEN Nil ELSE @],
              err |-> Nil]

Handler(p, columns, printFunc) ==
    LET err == validatePrintHandlerFunc(printFunc)
    IN  IF err # Nil
        THEN [p |-> p, err |-> err]
        ELSE [p |-> [p EXCEPT !.handlerMap =
                        SetEntry(@, printFunc.ins[1],
                                 [columns |-> columns, printFunc |-> printFunc])],
              err |-> Nil]

\* Mutant: the list handler of events is not registered.
DefaultHandlersNoEventList ==
    << <<podColumns, printPodFn>>,
       <<podColumns, printPodListFn>>,
       <<replicationControllerColumns, printReplicationControllerFn>>,
       <<replicationControllerColumns, printReplicationControllerListFn>>,
       <<serviceColumns, printServiceFn>>,
       <<serviceColumns, printServiceListFn>>,
       <<minionColumns, printMinionFn>>,
       <<minionColumns, printMinionListFn>>,
       <<statusColumns, printStatusFn>>,
       <<eventColumns, printEventFn>> >>

\* The default registrations, in the order of addDefaultHandlers.
DefaultHandlers ==
    << <<podColumns, printPodFn>>,
       <<podColumns, printPodListFn>>,
       <<replicationControllerColumns, printReplicationControllerFn>>,
       <<replicationControllerColumns, printReplicationControllerListFn>>,
       <<serviceColumns, printServiceFn>>,
       <<serviceColumns, printServiceListFn>>,
       <<minionColumns, printMinionFn>>,
       <<minionColumns, printMinionListFn>>,
       <<statusColumns, printStatusFn>>,
       <<eventColumns, printEventFn>>,
       <<eventColumns, printEventListFn>> >>

RECURSIVE RegisterAll(_, _)
RegisterAll(p, regs) ==
    IF regs = <<>> THEN p
    ELSE RegisterAll(Handler(p, Head(regs)[1], Head(regs)[2]).p, Tail(regs))

addDefaultHandlers(p) == RegisterAll(p, DefaultHandlers)

NewHumanReadablePrinter(noHeaders) ==
    addDefaultHandlers([handlerMap |-> <<>>, noHeaders |-> noHeaders, lastType |-> Nil])

(***************************************************************************)
(* Objects: a single resource [type, idx] or a list of n items.  The       *)
(* render functions write one line per item; the cells of a line are those *)
(* of the function's format string.                                        *)
(***************************************************************************)
Obj(type, idx, n) == [type |-> type, idx |-> idx, n |-> n]

\* list.Items[i]
Item(elemType, i) == Obj(elemType, i, 0)

printPod(pod, w) == Write(w, RowLine("printPod", pod.idx, 5))

printReplicationController(controller, w) ==
    Write(w, RowLine("printReplicationController", controller.idx, 4))

printService(svc, w) == Write(w, RowLine("printService", svc.idx, 5))

printMinion(minion, w) == Write(w, RowLine("printMinion", minion.idx, 1))

printStatus(status, w) == Write(w, RowLine("printStatus", status.idx, 1))

printEvent(event, w) == Write(w, RowLine("printEvent", event.idx, 5))

\* The singular render function a list function calls for each item.
PrintItem(printOne, item, w) ==
    CASE printOne = "printPod" -> printPod(item, w)
      [] printOne = "printReplicationController" -> printReplicationController(item, w)
      [] printOne = "printService" -> printService(item, w)
      [] printOne = "printMinion" -> printMinion(item, w)
      [] printOne = "printEvent" -> printEvent(item, w)

\* Mutant: the loop goes on after an item failed.
RECURSIVE RangeItemsKeepsGoing(_, _, _, _, _)
RangeItemsKeepsGoing(printOne, elemType, list, i, w) ==
    IF i > list.n THEN (IF list.n = 0 THEN [w EXCEPT !.err = Nil] ELSE w)
    ELSE RangeItemsKeepsGoing(printOne, elemType, list, i + 1,
                              PrintItem(printOne, Item(elemType, i), w))

\* for _, item := range list.Items { if err := printOne(&item, w); err != nil
\* { return err } }; return nil
RECURSIVE RangeItems(_, _, _, _, _)
RangeItems(printOne, elemType, list, i, w) ==
    IF i > list.n THEN [w EXCEPT !.err = Nil]
    ELSE LET w1 == PrintItem(printOne, Item(elemType, i), w)
         IN  IF w1.err # Nil THEN w1
             ELSE RangeItems(printOne, elemType, list, i + 1, w1)

printPodList(podList, w) == RangeItems("printPod", "*api.Pod", podList, 1, w)

printReplicationControllerList(list, w) ==
    RangeItems("printReplicationController", "*api.ReplicationController", list, 1, w)

printServiceList(list, w) == RangeItems("printService", "*api.Service", list, 1, w)

printMinionList(list, w) == RangeItems("printMinion", "*api.Minion", list, 1, w)

printEventList(list, w) == RangeItems("printEvent", "*api.Event", list, 1, w)

\* Caller-supplied render functions: one that returns what its Fprintf
\* returned, one that writes its row and then fails with an error of its own,
\* and a replacement for printService.
errRender == "render error"

printEndpoints(e, w) == Write(w, RowLine("printEndpoints", e.idx, 2))

printEndpointsFailing(e, w) ==
    [Write(w, RowLine("printEndpointsFailing", e.idx, 2)) EXCEPT !.err = errRender]

printServiceShort(svc, w) == Write(w, RowLine("printServiceShort", svc.idx, 2))

\* handler.printFunc.Call(args)[0]: the writer after the call, err the result.
Call(printFunc, obj, w) ==
    CASE printFunc.impl = "printPod" -> printPod(obj, w)
      [] printFunc.impl = "printPodList" -> printPodList(obj, w)
      [] printFunc.impl = "printReplicationController" -> printReplicationController(obj, w)
      [] printFunc.impl = "printReplicationControllerList" ->
            printReplicationControllerList(obj, w)
      [] printFunc.impl = "printService" -> printService(obj, w)
      [] printFunc.impl = "printServiceList" -> printServiceList(obj, w)
      [] printFunc.impl = "printMinion" -> printMinion(obj, w)
      [] printFunc.impl = "printMinionList" -> printMinionList(obj, w)
      [] printFunc.impl = "printStatus" -> printStatus(obj, w)
      [] printFunc.impl = "printEvent" -> printEvent(obj, w)
      [] printFunc.impl = "printEventList" -> printEventList(obj, w)
      [] printFunc.impl = "printEndpoints" -> printEndpoints(obj, w)
      [] printFunc.impl = "printEndpointsFailing" -> printEndpointsFailing(obj, w)
      [] printFunc.impl = "printServiceShort" -> printServiceShort(obj, w)

\* printHeader: one Fprintf of the tab-joined column names.
printHeader(columnNames, w) == Write(w, HeaderLine(columnNames))

errUnknownType == "error: unknown type"

\* t := reflect.TypeOf(obj)
TypeOf(obj) == obj.type

\* Mutant: the last-printed type is not compared.
NeedsHeaderAlways(p, t) == ~p.noHeaders

\* Mutant: a header only before the first object printed.
NeedsHeaderFirstOnly(p, t) == ~p.noHeaders /\ p.lastType = Nil

\* Mutant: the suppress-headers flag is not consulted.
NeedsHeaderIgnoresFlag(p, t) == t # p.lastType

\* !h.noHeaders && t != h.lastType
NeedsHeader(p, t) == ~p.noHeaders /\ t # p.lastType

\* Mutant: the last-printed type is never updated.
SetLastTypeNever(p, t) == p

\* h.lastType = t
SetLastType(p, t) == [p EXCEPT !.lastType = t]

\* Mutant: an object of an unknown type is reported on the writer as well.
PrintObjReportsUnknown(p, obj, failFrom) ==
    LET w0 == NewWriter(failFrom)
        t == TypeOf(obj)
        handler == Lookup(p, t)
    IN  IF handler # NoEntry
        THEN LET hdr == NeedsHeader(p, t)
                 w1 == IF hdr THEN printHeader(handler.columns, w0) ELSE w0
                 p1 == IF hdr THEN SetLastType(p, t) ELSE p
                 w2 == Call(handler.printFunc, obj, w1)
             IN  [p |-> p1, err |-> w2.err, w |-> Flush(w2), known |-> TRUE]
        ELSE [p |-> p, err |-> errUnknownType,
              w |-> Flush(Write(w0, RowLine("unknown", 0, 2))), known |-> FALSE]

\* Mutant: an object of an unknown type becomes the last-printed type.
PrintObjUnknownSetsType(p, obj, failFrom) ==
    LET w0 == NewWriter(failFrom)
        t == TypeOf(obj)
        handler == Lookup(p, t)
    IN  IF handler # NoEntry
        THEN LET hdr == NeedsHeader(p, t)
                 w1 == IF hdr THEN printHeader(handler.columns, w0) ELSE w0
                 p1 == IF hdr THEN SetLastType(p, t) ELSE p
                 w2 == Call(handler.printFunc, obj, w1)
             IN  [p |-> p1, err |-> w2.err, w |-> Flush(w2), known |-> TRUE]
        ELSE [p |-> IF p.noHeaders THEN p ELSE SetLastType(p, t),
              err |-> errUnknownType, w |-> Flush(w0), known |-> FALSE]

\* Mutant: the tabwriter is flushed only when the call succeeds.
PrintObjFlushesOnSuccess(p, obj, failFrom) ==
    LET w0 == NewWriter(failFrom)
        t == TypeOf(obj)
        handler == Lookup(p, t)
    IN  IF handler # NoEntry
        THEN LET hdr == NeedsHeader(p, t)
                 w1 == IF hdr THEN printHeader(handler.columns, w0) ELSE w0
                 p1 == IF hdr THEN SetLastType(p, t) ELSE p
                 w2 == Call(handler.printFunc, obj, w1)
             IN  [p |-> p1, err |-> w2.err,
                  w |-> IF w2.err = Nil THEN Flush(w2) ELSE w2, known |-> TRUE]
        ELSE [p |-> p, err |-> errUnknownType, w |-> w0, known |-> FALSE]

\* Mutant: the result of the render function is dropped.
PrintObjDropsResult(p, obj, failFrom) ==
    LET w0 == NewWriter(failFrom)
        t == TypeOf(obj)
        handler == Lookup(p, t)
    IN  IF handler # NoEntry
        THEN LET hdr == NeedsHeader(p, t)
                 w1 == IF hdr THEN printHeader(handler.columns, w0) ELSE w0
                 p1 == IF hdr THEN SetLastType(p, t) ELSE p
                 w2 == Call(handler.printFunc, obj, w1)
             IN  [p |-> p1, err |-> Nil, w |-> Flush(w2), known |-> TRUE]
        ELSE [p |-> p, err |-> errUnknownType, w |-> Flush(w0), known |-> FALSE]

\* Mutant: the last-printed type is updated only when the render function
\* succeeded.
PrintObjKeepsTypeOnSuccess(p, obj, failFrom) ==
    LET w0 == NewWriter(failFrom)
        t == TypeOf(obj)
        handler == Lookup(p, t)
    IN  IF handler # NoEntry
        THEN LET hdr == NeedsHeader(p, t)
                 w1 == IF hdr THEN printHeader(handler.columns, w0) ELSE w0
                 w2 == Call(handler.printFunc, obj, w1)
                 p1 == IF hdr /\ w2.err = Nil THEN SetLastType(p, t) ELSE p
             IN  [p |-> p1, err |-> w2.err, w |-> Flush(w2), known |-> TRUE]
        ELSE [p |-> p, err |-> errUnknownType, w |-> Flush(w0), known |-> FALSE]

\* PrintObj: the printer after the call, the returned error, and the
\* tabwriter after the deferred Flush (w.written is what reached the caller's
\* writer during the call).  The results of printHeader and of the deferred
\* Flush are discarded, as in the source.
PrintObj(p, obj, failFrom) ==
    LET w0 == NewWriter(failFrom)
        t == TypeOf(obj)
        handler == Lookup(p, t)
    IN  IF handler # NoEntry
        THEN LET hdr == NeedsHeader(p, t)
                 w1 == IF hdr THEN printHeader(handler.columns, w0) ELSE w0
                 p1 == IF hdr THEN SetLastType(p, t) ELSE p
                 w2 == Call(handler.printFunc, obj, w1)
             IN  [p |-> p1, err |-> w2.err, w |-> Flush(w2), known |-> TRUE]
        ELSE [p |-> p, err |-> errUnknownType, w |-> Flush(w0), known |-> FALSE]

(***************************************************************************)
(* The versioned printers and the factory.  A printer value is a record    *)
(* naming its type with its fields; NoPrinter is the nil ResourcePrinter.  *)
(* Text (a template, a path, encoded bytes) is a sequence of tokens, the   *)
(* empty sequence being the empty string.                                  *)
(***************************************************************************)
NoPrinter == [kind |-> Nil, version |-> "", template |-> <<>>, noHeaders |-> FALSE]

JSONPrinter(version) ==
    [kind |-> "JSONPrinter", version |-> version, template |-> <<>>, noHeaders |-> FALSE]

YAMLPrinter(version) ==
    [kind |-> "YAMLPrinter", version |-> version, template |-> <<>>, noHeaders |-> FALSE]

TemplatePrinter(version, t) ==
    [kind |-> "TemplatePrinter", version |-> version, template |-> t, noHeaders |-> FALSE]

\* A *HumanReadablePrinter handed to GetPrinter as the default printer.
HumanPrinter(noHeaders) ==
    [kind |-> "HumanReadablePrinter", version |-> "", template |-> <<>>,
     noHeaders |-> noHeaders]

\* The IsVersioned methods: the receiver after the call and the result.  None
\* of them names its receiver, so none reads or writes a field of it.
\* func (*JSONPrinter) IsVersioned() bool { return true }
JSONIsVersioned(j) == [p |-> j, ret |-> TRUE]

\* func (*YAMLPrinter) IsVersioned() bool { return true }
YAMLIsVersioned(y) == [p |-> y, ret |-> TRUE]

\* func (*TemplatePrinter) IsVersioned() bool { return true }
TemplateIsVersioned(t) == [p |-> t, ret |-> TRUE]

\* Mutant: a printer that has printed something reports versioned output.
HumanIsVersionedOncePrinted(p) == [p |-> p, ret |-> p.lastType # Nil]

\* func (*HumanReadablePrinter) IsVersioned() bool { return false }
HumanIsVersioned(p) == [p |-> p, ret |-> FALSE]

\* printer.IsVersioned() on a versioned printer held as a ResourcePrinter.
IsVersioned(printer) ==
    CASE printer.kind = "JSONPrinter" -> JSONIsVersioned(printer)
      [] printer.kind = "YAMLPrinter" -> YAMLIsVersioned(printer)
      [] printer.kind = "TemplatePrinter" -> TemplateIsVersioned(printer)

errParse == "template: parse error"

\* template.New("output").Parse(text): "{{" opens an action that "}}" must
\* close and that must hold a command; anything else is text.
RECURSIVE ParseFrom(_, _, _)
ParseFrom(text, inAction, cmds) ==
    IF text = <<>> THEN (IF inAction THEN errParse ELSE Nil)
    ELSE IF inAction
         THEN IF Head(text) = "}}"
              THEN (IF cmds = 0 THEN errParse ELSE ParseFrom(Tail(text), FALSE, 0))
              ELSE IF Head(text) = "{{" THEN errParse
              ELSE ParseFrom(Tail(text), TRUE, cmds + 1)
         ELSE ParseFrom(Tail(text), Head(text) = "{{", 0)

Parse(text) == ParseFrom(text, FALSE, 0)

NewTemplatePrinter(version, tmpl) ==
    LET err == Parse(tmpl)
    IN  IF err # Nil
        THEN [printer |-> NoPrinter, err |-> err]
        ELSE [printer |-> TemplatePrinter(version, tmpl), err |-> Nil]

errNoTemplate == "template format specified but no template given"
errNoTemplateFile == "templatefile format specified but no template file given"
errReadingTemplate == "error reading template"
errParsingTemplate == "error parsing template"
errNotRecognized == "output format not recognized"

\* ioutil.ReadFile on the file system fs, a function from paths to contents.
ReadFile(fs, path) ==
    IF path \in DOMAIN fs
    THEN [data |-> fs[path], err |-> Nil]
    ELSE [data |-> <<>>, err |-> "no such file or directory"]

\* Mutant: a format that is not recognized falls back to the default printer.
GetPrinterFallsBack(version, format, templateFile, defaultPrinter, fs) ==
    CASE format = "json" -> [printer |-> JSONPrinter(version), err |-> Nil]
      [] format = "yaml" -> [printer |-> YAMLPrinter(version), err |-> Nil]
      [] format = "template" ->
            IF Len(templateFile) = 0
            THEN [printer |-> NoPrinter, err |-> errNoTemplate]
            ELSE LET r == NewTemplatePrinter(version, templateFile)
                 IN  IF r.err # Nil
                     THEN [printer |-> NoPrinter, err |-> errParsingTemplate]
                     ELSE [printer |-> r.printer, err |-> Nil]
      [] format = "templatefile" ->
            IF Len(templateFile) = 0
            THEN [printer |-> NoPrinter, err |-> errNoTemplateFile]
            ELSE LET f == ReadFile(fs, templateFile)
                 IN  IF f.err # Nil
                     THEN [printer |-> NoPrinter, err |-> errReadingTemplate]
                     ELSE LET r == NewTemplatePrinter(version, f.data)
                          IN  IF r.err # Nil
                              THEN [printer |-> NoPrinter, err |-> errParsingTemplate]
                              ELSE [printer |-> r.printer, err |-> Nil]
      [] format = "" -> [printer |-> defaultPrinter, err |-> Nil]
      [] OTHER -> [printer |-> defaultPrinter, err |-> Nil]

GetPrinter(version, format, templateFile, defaultPrinter, fs) ==
    CASE format = "json" -> [printer |-> JSONPrinter(version), err |-> Nil]
      [] format = "yaml" -> [printer |-> YAMLPrinter(version), err |-> Nil]
      [] format = "template" ->
            IF Len(templateFile) = 0
            THEN [printer |-> NoPrinter, err |-> errNoTemplate]
            ELSE LET r == NewTemplatePrinter(version, templateFile)
                 IN  IF r.err # Nil
                     THEN [printer |-> NoPrinter, err |-> errParsingTemplate]
                     ELSE [printer |-> r.printer, err |-> Nil]
      [] format = "templatefile" ->
            IF Len(templateFile) = 0
            THEN [printer |-> NoPrinter, err |-> errNoTemplateFile]
            ELSE LET f == ReadFile(fs, templateFile)
                 IN  IF f.err # Nil
                     THEN [printer |-> NoPrinter, err |-> errReadingTemplate]
                     ELSE LET r == NewTemplatePrinter(version, f.data)
                          IN  IF r.err # Nil
                              THEN [printer |-> NoPrinter, err |-> errParsingTemplate]
                              ELSE [printer |-> r.printer, err |-> Nil]
      [] format = "" -> [printer |-> defaultPrinter, err |-> Nil]
      [] OTHER -> [printer |-> NoPrinter, err |-> errNotRecognized]

(***************************************************************************)
(* PrintObj of the versioned printers.  The collaborators are an           *)
(* environment env: lookup is the error of latest.InterfacesFor (Nil: the  *)
(* version is known), encode the error of Codec.Encode, data the bytes     *)
(* Encode returned, marshal the error of yaml.Marshal.  The result is the  *)
(* returned error with tries, the writes made to the caller's writer in    *)
(* order, each with its content and whether the writer accepted it.        *)
(***************************************************************************)
errSyntax == "json: syntax error"

Try(content, ok) == [content |-> content, ok |-> ok]

\* newline(dst, prefix, indent, depth) with prefix "" and indent "    ".
RECURSIVE Newline(_, _)
Newline(dst, depth) ==
    IF depth = 0 THEN Append(dst, "\n")
    ELSE Append(Newline(dst, depth - 1), "    ")

Opens(tok) == tok \in {"{", "["}
Closes(tok) == tok \in {"}", "]"}

\* json.Indent over the tokens of src: the scanner rejects a closing bracket
\* that closes nothing and input that ends inside a value; on an error dst is
\* truncated to what it held before.
RECURSIVE IndentFrom(_, _, _, _, _)
IndentFrom(src, dst, depth, needIndent, open) ==
    IF src = <<>>
    THEN IF open > 0 \/ dst = <<>>
         THEN [dst |-> <<>>, err |-> errSyntax]
         ELSE [dst |-> dst, err |-> Nil]
    ELSE LET c == Head(src)
             bump == needIndent /\ ~Closes(c)
             d1 == IF bump THEN depth + 1 ELSE depth
             dst1 == IF bump THEN Newline(dst, d1) ELSE dst
             need1 == IF bump THEN FALSE ELSE needIndent
         IN  IF Opens(c)
             THEN IndentFrom(Tail(src), Append(dst1, c), d1, TRUE, open + 1)
             ELSE IF Closes(c)
             THEN IF open = 0
                  THEN [dst |-> <<>>, err |-> errSyntax]
                  ELSE IF need1
                       THEN IndentFrom(Tail(src), Append(dst1, c), d1, FALSE, open - 1)
                       ELSE IndentFrom(Tail(src), Append(Newline(dst1, d1 - 1), c),
                                       d1 - 1, FALSE, open - 1)
             ELSE IF c = ","
             THEN IndentFrom(Tail(src), Newline(Append(dst1, c), d1), d1, need1, open)
             ELSE IF c = ":"
             THEN IndentFrom(Tail(src), Append(Append(dst1, c), " "), d1, need1, open)
             ELSE IndentFrom(Tail(src), Append(dst1, c), d1, need1, open)

Indent(src) == IndentFrom(src, <<>>, 0, FALSE, 0)

\* Mutant: the trailing newline is not appended.
JSONPrintObjNoNewline(j, env, failFrom) ==
    IF env.lookup # Nil THEN [err |-> env.lookup, tries |-> <<>>]
    ELSE IF env.encode # Nil THEN [err |-> env.encode, tries |-> <<>>]
    ELSE LET dst == Indent(env.data).dst
             ok == Accepts(failFrom, 1)
         IN  [err |-> IF ok THEN Nil ELSE errWrite, tries |-> <<Try(dst, ok)>>]

\* JSONPrinter.PrintObj: the error of json.Indent is overwritten by the
\* result of the one Write.
JSONPrintObj(j, env, failFrom) ==
    IF env.lookup # Nil THEN [err |-> env.lookup, tries |-> <<>>]
    ELSE IF env.encode # Nil THEN [err |-> env.encode, tries |-> <<>>]
    ELSE LET dst == Append(Indent(env.data).dst, "\n")
             ok == Accepts(failFrom, 1)
         IN  [err |-> IF ok THEN Nil ELSE errWrite, tries |-> <<Try(dst, ok)>>]

\* The key/value pairs of the tokens between the braces of a flat object.
RECURSIVE Pairs(_)
Pairs(toks) ==
    IF Len(toks) < 3 THEN <<>>
    ELSE <<<<toks[1], toks[3]>>>> \o
         Pairs(IF Len(toks) > 4 THEN SubSeq(toks, 5, Len(toks)) ELSE <<>>)

\* json.Unmarshal(data, &outObj) into a map[string]interface{}: a syntax
\* error, or an error when the document is not an object.
Unmarshal(data) ==
    IF Indent(data).err # Nil THEN [outObj |-> <<>>, err |-> errSyntax]
    ELSE IF Head(data) # "{"
    THEN [outObj |-> <<>>, err |-> "json: cannot unmarshal into map"]
    ELSE [outObj |-> Pairs(SubSeq(data, 2, Len(data) - 1)), err |-> Nil]

toVersionedMap(version, env) ==
    IF env.lookup # Nil THEN [outObj |-> <<>>, err |-> env.lookup]
    ELSE IF env.encode # Nil THEN [outObj |-> <<>>, err |-> env.encode]
    ELSE Unmarshal(env.data)

\* yaml.Marshal of a flat map: a line "key: value" per entry, "{}" for none.
RECURSIVE MarshalPairs(_)
MarshalPairs(outObj) ==
    IF outObj = <<>> THEN <<>>
    ELSE <<Head(outObj)[1], ": ", Head(outObj)[2], "\n">> \o MarshalPairs(Tail(outObj))

Marshal(outObj) == IF outObj = <<>> THEN <<"{}", "\n">> ELSE MarshalPairs(outObj)

\* YAMLPrinter.PrintObj: one Fprint of the marshalled mapping.
YAMLPrintObj(y, env, failFrom) ==
    LET m == toVersionedMap(y.version, env)
    IN  IF m.err # Nil THEN [err |-> m.err, tries |-> <<>>]
        ELSE IF env.marshal # Nil THEN [err |-> env.marshal, tries |-> <<>>]
        ELSE LET ok == Accepts(failFrom, 1)
             IN  [err |-> IF ok THEN Nil ELSE errWrite,
                  tries |-> <<Try(Marshal(m.outObj), ok)>>]

\* The key a field of a template names.
FieldKey(field) ==
    CASE field = ".id" -> "\"id\""
      [] field = ".kind" -> "\"kind\""
      [] OTHER -> field

\* The value of a field in the mapping: "<no value>" for an absent key.
FieldValue(outObj, field) ==
    LET is == {i \in 1..Len(outObj) : outObj[i][1] = FieldKey(field)}
    IN  IF is = {} THEN "<no value>" ELSE outObj[CHOOSE i \in is : TRUE][2]

\* template.Execute(w, outObj): each text and each action of the parsed
\* template is one Write; the first rejected Write ends the execution.
RECURSIVE Execute(_, _, _, _, _)
Execute(t, outObj, inAction, tries, failFrom) ==
    IF t = <<>> THEN [err |-> Nil, tries |-> tries]
    ELSE IF Head(t) \in {"{{", "}}"}
    THEN Execute(Tail(t), outObj, Head(t) = "{{", tries, failFrom)
    ELSE LET content == IF inAction THEN <<FieldValue(outObj, Head(t))>> ELSE <<Head(t)>>
             ok == Accepts(failFrom, Len(tries) + 1)
         IN  IF ok
             THEN Execute(Tail(t), outObj, inAction, Append(tries, Try(content, ok)), failFrom)
             ELSE [err |-> errWrite, tries |-> Append(tries, Try(content, ok))]

\* TemplatePrinter.PrintObj
TemplatePrintObj(t, env, failFrom) ==
    LET m == toVersionedMap(t.version, env)
    IN  IF m.err # Nil THEN [err |-> m.err, tries |-> <<>>]
        ELSE Execute(t.template, m.outObj, FALSE, <<>>, failFrom)

\* ResourcePrinter.PrintObj on a versioned printer.
VersionedPrintObj(printer, env, failFrom) ==
    CASE printer.kind = "JSONPrinter" -> JSONPrintObj(printer, env, failFrom)
      [] printer.kind = "YAMLPrinter" -> YAMLPrintObj(printer, env, failFrom)
      [] printer.kind = "TemplatePrinter" -> TemplatePrintObj(printer, env, failFrom)

(***************************************************************************)
(* The sequential specification: one HumanReadablePrinter, built by        *)
(* NewHumanReadablePrinter, on which Handler and PrintObj are called one   *)
(* at a time.  out is everything the callers' writers accepted; last       *)
(* describes the last call (the printer before it, its arguments, its      *)
(* result, its tabwriter, the length of out before it); hist lists, per    *)
(* PrintObj call, the object, the writer's failFrom, whether a handler was *)
(* found, whether a header line was handed to the tabwriter and the error  *)
(* the call returned.                                                      *)
(***************************************************************************)
HasHeader(lines) == \E i \in 1..Len(lines) : lines[i].kind = "header"

\* The Handler calls a caller makes: well-formed render functions with their
\* columns, one of them under two column sequences, and the malformed values.
HandlerArgs ==
    { <<<<"NAME", "ENDPOINTS">>, printEndpointsFn>>,
      <<<<"ID">>, printEndpointsFn>>,
      <<<<"NAME", "ENDPOINTS">>, printEndpointsFailingFn>>,
      <<<<"ID">>, printServiceShortFn>> }
    \cup {<<<<"NAME">>, f>> :
             f \in {notAFunction, threeParams, oneParam, twoResults, wrongWriter, wrongResult}}

\* The objects a caller prints: of types with a default handler, and of a
\* type that has a handler only once a caller has registered one.
PrintArgs ==
    {Obj("*api.Service", 1, 0), Obj("*api.Endpoints", 1, 0)}
    \cup {Obj("*api.ServiceList", 0, n) : n \in 0..MaxItems}
    \cup {Obj("*api.MinionList", 0, n) : n \in 1..MaxItems}

\* The write of the caller's writer from which it rejects (0: never).
FailFroms == 0..3

\* The PrintObj calls a caller makes: every object on a writer that accepts
\* everything, and an object of multi-cell rows and a list of single-cell rows
\* on writers that reject.
PrintCalls ==
    {<<obj, 0>> : obj \in PrintArgs}
    \cup {<<obj, failFrom>> :
             obj \in {Obj("*api.Service", 1, 0), Obj("*api.MinionList", 0, MaxItems)},
             failFrom \in FailFroms \ {0}}

\* The versioned printers a caller asks IsVersioned of.
HeldPrinters ==
    {JSONPrinter("v1beta1"), YAMLPrinter("v1beta1"),
     TemplatePrinter("v1beta1", <<"{{", ".id", "}}">>)}

NoCall ==
    [op |-> "new", n |-> 0, arg |-> Nil, before |-> Nil, at |-> 0, err |-> Nil,
     w |-> NewWriter(0), known |-> FALSE, ret |-> FALSE]

IdleFactory == [called |-> FALSE]
IdleVersioned == [called |-> FALSE]
IdleLists == [called |-> FALSE]

OtherIdle ==
    /\ gp = IdleFactory
    /\ vp = IdleVersioned
    /\ mode = Nil
    /\ inst = <<>>
    /\ th = <<>>
    /\ ev = <<>>
    /\ lr = IdleLists

Init ==
    /\ \E noHeaders \in BOOLEAN : h = NewHumanReadablePrinter(noHeaders)
    /\ out = <<>>
    /\ last = NoCall
    /\ hist = <<>>
    /\ OtherIdle

DoHandler(columns, printFunc) ==
    /\ last.n < MaxOps
    /\ LET r == Handler(h, columns, printFunc)
       IN  /\ h' = r.p
           /\ last' = [op |-> "Handler", n |-> last.n + 1,
                       arg |-> [columns |-> columns, printFunc |-> printFunc],
                       before |-> h, at |-> Len(out), err |-> r.err,
                       w |-> NewWriter(0), known |-> FALSE, ret |-> FALSE]
    /\ UNCHANGED <<out, hist, gp, vp, mode, inst, th, ev, lr>>

DoPrintObj(obj, failFrom) ==
    /\ last.n < MaxOps
    /\ LET r == PrintObj(h, obj, failFrom)
       IN  /\ h' = r.p
           /\ out' = out \o r.w.written
           /\ last' = [op |-> "PrintObj", n |-> last.n + 1, arg |-> obj, before |-> h,
                       at |-> Len(out), err |-> r.err, w |-> r.w, known |-> r.known,
                       ret |-> FALSE]
           /\ hist' = Append(hist, [obj |-> obj, failFrom |-> failFrom,
                                    known |-> r.known, hdr |-> HasHeader(r.w.input),
                                    err |-> r.err])
    /\ UNCHANGED <<gp, vp, mode, inst, th, ev, lr>>

\* h.IsVersioned()
DoIsVersioned ==
    /\ last.n < MaxOps
    /\ LET r == HumanIsVersioned(h)
       IN  /\ h' = r.p
           /\ last' = [op |-> "IsVersioned", n |-> last.n + 1, arg |-> Nil, before |-> h,
                       at |-> Len(out), err |-> Nil, w |-> NewWriter(0),
                       known |-> FALSE, ret |-> r.ret]
    /\ UNCHANGED <<out, hist, gp, vp, mode, inst, th, ev, lr>>

\* printer.IsVersioned() on a versioned printer the caller holds beside h.
DoVersionedIsVersioned(printer) ==
    /\ last.n < MaxOps
    /\ LET r == IsVersioned(printer)
       IN  last' = [op |-> "VersionedIsVersioned", n |-> last.n + 1, arg |-> r.p,
                    before |-> h, at |-> Len(out), err |-> Nil, w |-> NewWriter(0),
                    known |-> FALSE, ret |-> r.ret]
    /\ UNCHANGED <<h, out, hist, gp, vp, mode, inst, th, ev, lr>>

Next ==
    \/ \E a \in HandlerArgs : DoHandler(a[1], a[2])
    \/ \E c \in PrintCalls : DoPrintObj(c[1], c[2])
    \/ DoIsVersioned
    \/ \E printer \in HeldPrinters : DoVersionedIsVersioned(printer)

Spec == Init /\ [][Next]_vars

(***************************************************************************)
(* The factory specification: GetPrinter called with every combination of  *)
(* a version, a format, a template source, a default printer and a file    *)
(* system; gp holds the arguments and the result of the last call.         *)
(***************************************************************************)
Versions == {"v1beta1", "v1beta3"}

Formats == {"json", "yaml", "template", "templatefile", "", "xml", "JSON"}

\* Template sources: the empty string, well-formed and malformed template
\* text, and paths.
Sources ==
    { <<>>,
      <<"{{", ".id", "}}">>,
      <<"id=", "{{", ".id">>,
      <<"{{", "}}">>,
      <<"/tmp/", "a.tmpl">>,
      <<"/tmp/", "missing">> }

FileSystems ==
    { <<>>,
      [path \in {<<"/tmp/", "a.tmpl">>} |-> <<"{{", ".kind", "}}">>],
      [path \in {<<"/tmp/", "a.tmpl">>} |-> <<"{{", ".kind">>],
      [path \in {<<"/tmp/", "a.tmpl">>} |-> <<>>] }

DefaultPrinters == {NoPrinter, HumanPrinter(FALSE), HumanPrinter(TRUE), JSONPrinter("v1beta1")}

SeqIdle ==
    /\ h = Nil
    /\ out = <<>>
    /\ last = NoCall
    /\ hist = <<>>

ConcIdle ==
    /\ mode = Nil
    /\ inst = <<>>
    /\ th = <<>>
    /\ ev = <<>>

InitFactory ==
    /\ gp = IdleFactory
    /\ vp = IdleVersioned
    /\ lr = IdleLists
    /\ SeqIdle
    /\ ConcIdle

DoGetPrinter(version, format, templateFile, defaultPrinter, fs) ==
    /\ LET r == GetPrinter(version, format, templateFile, defaultPrinter, fs)
       IN  gp' = [called |-> TRUE, version |-> version, format |-> format,
                  templateFile |-> templateFile, defaultPrinter |-> defaultPrinter,
                  fs |-> fs, printer |-> r.printer, err |-> r.err]
    /\ UNCHANGED <<h, out, last, hist, vp, mode, inst, th, ev, lr>>

NextFactory ==
    \E version \in Versions, format \in Formats, templateFile \in Sources,
       defaultPrinter \in DefaultPrinters, fs \in FileSystems :
        DoGetPrinter(version, format, templateFile, defaultPrinter, fs)

SpecFactory == InitFactory /\ [][NextFactory]_vars

(***************************************************************************)
(* The specification of the versioned printers: PrintObj called on a       *)
(* JSON, YAML or template printer under every environment; vp holds the    *)
(* printer, the environment and the result of the last call.               *)
(***************************************************************************)
errVersion == "unsupported storage version"
errEncode == "encode error"
errMarshal == "yaml: marshal error"

VersionedPrinters ==
    {JSONPrinter("v1beta1"), YAMLPrinter("v1beta1"),
     TemplatePrinter("v1beta1", <<"{{", ".id", "}}">>),
     TemplatePrinter("v1beta1", <<"kind=", "{{", ".kind", "}}", " id=", "{{", ".id", "}}">>)}

\* What Codec.Encode may return: objects, a document that is no object, and
\* bytes that are no JSON document.
Encodings ==
    { <<"{", "}">>,
      <<"{", "\"id\"", ":", "\"frontend\"", ",", "\"kind\"", ":", "\"Service\"", "}">>,
      <<"[", "1", "]">>,
      <<"{", "\"id\"", ":">> ,
      <<"}">> }

Envs ==
    [lookup : {Nil, errVersion}, encode : {Nil, errEncode}, data : Encodings,
     marshal : {Nil, errMarshal}]

InitVersioned ==
    /\ vp = IdleVersioned
    /\ gp = IdleFactory
    /\ lr = IdleLists
    /\ SeqIdle
    /\ ConcIdle

DoVersionedPrintObj(printer, env, failFrom) ==
    /\ LET r == VersionedPrintObj(printer, env, failFrom)
       IN  vp' = [called |-> TRUE, printer |-> printer, env |-> env,
                  failFrom |-> failFrom, err |-> r.err, tries |-> r.tries]
    /\ UNCHANGED <<h, out, last, hist, gp, mode, inst, th, ev, lr>>

NextVersioned ==
    \E printer \in VersionedPrinters, env \in Envs, failFrom \in FailFroms :
        DoVersionedPrintObj(printer, env, failFrom)

SpecVersioned == InitVersioned /\ [][NextVersioned]_vars

(***************************************************************************)
(* The specification of the list render functions: each default list       *)
(* function called on its own with a list of every length, on a tabwriter  *)
(* and on a direct writer, the caller's writer rejecting from every        *)
(* position; lr holds the arguments and the writer after the call.         *)
(***************************************************************************)
ListFns ==
    {printPodListFn, printReplicationControllerListFn, printServiceListFn,
     printMinionListFn, printEventListFn}

ListFailFroms == 0..(3 * MaxListItems + 1)

InitLists ==
    /\ lr = IdleLists
    /\ gp = IdleFactory
    /\ vp = IdleVersioned
    /\ SeqIdle
    /\ ConcIdle

DoPrintList(printFunc, n, direct, failFrom) ==
    /\ LET list == Obj(printFunc.ins[1], 0, n)
           w == IF direct THEN NewDirectWriter(failFrom) ELSE NewWriter(failFrom)
       IN  lr' = [called |-> TRUE, printFunc |-> printFunc, list |-> list,
                  direct |-> direct, failFrom |-> failFrom,
                  w |-> Call(printFunc, list, w)]
    /\ UNCHANGED <<h, out, last, hist, gp, vp, mode, inst, th, ev>>

NextLists ==
    \E printFunc \in ListFns, n \in 0..MaxListItems, direct \in BOOLEAN,
       failFrom \in ListFailFroms :
        DoPrintList(printFunc, n, direct, failFrom)

SpecLists == InitLists /\ [][NextLists]_vars

(***************************************************************************)
(* The concurrent specification: two threads of control call PrintObj,     *)
(* each call a sequence of steps a scheduler interleaves: the handler      *)
(* lookup, the test of noHeaders and lastType (line 357), printHeader      *)
(* (358), the assignment of lastType (359), the call of the render         *)
(* function (362) and the deferred Flush.  mode.kind says how the callers  *)
(* use the printer: "shared" (one instance, no synchronization),           *)
(* "serialized" (one instance, the callers hold a lock of their own around *)
(* each call) or "own" (an instance per thread); mode.lock is the holder   *)
(* of the callers' lock (0: free).  ev[i] lists, for instance i, the       *)
(* headers and rows handed to the tabwriters in the order of the steps.    *)
(* An unsynchronized read of lastType that races with a write yields the   *)
(* value before or after the write, which the interleaving of the steps    *)
(* covers; a torn value compares unequal to the object's type, as the nil  *)
(* value before the first write does.                                      *)
(***************************************************************************)
Threads == {1, 2}

Modes == {"shared", "serialized", "own"}

ThreadArgs ==
    {Obj("*api.Service", 1, 0), Obj("*api.MinionList", 0, 1), Obj("*api.Endpoints", 1, 0)}

\* The instance a thread prints on.
InstOf(t) == IF mode.kind = "own" THEN t ELSE 1

IdleThread ==
    [pc |-> "idle", obj |-> Obj(Nil, 0, 0), w |-> NewWriter(0), err |-> Nil, calls |-> 0]

InitConc ==
    /\ mode \in [kind : Modes, lock : {0}]
    /\ \E noHeaders \in BOOLEAN : inst = [i \in Threads |-> NewHumanReadablePrinter(noHeaders)]
    /\ th = [t \in Threads |-> IdleThread]
    /\ ev = [i \in Threads |-> <<>>]
    /\ gp = IdleFactory
    /\ vp = IdleVersioned
    /\ lr = IdleLists
    /\ SeqIdle

\* PrintObj is entered: the tabwriter is made and the handler looked up.
Begin(t, obj) ==
    /\ th[t].pc = "idle"
    /\ th[t].calls < MaxThreadCalls
    /\ mode.kind = "serialized" => mode.lock = 0
    /\ mode' = IF mode.kind = "serialized" THEN [mode EXCEPT !.lock = t] ELSE mode
    /\ th' = [th EXCEPT ![t] =
                [pc |-> IF Lookup(inst[InstOf(t)], TypeOf(obj)) # NoEntry
                        THEN "check" ELSE "flush",
                 obj |-> obj, w |-> NewWriter(0),
                 err |-> IF Lookup(inst[InstOf(t)], TypeOf(obj)) # NoEntry
                         THEN Nil ELSE errUnknownType,
                 calls |-> th[t].calls]]
    /\ UNCHANGED <<inst, ev, h, out, last, hist, gp, vp, lr>>

\* if !h.noHeaders && t != h.lastType
Check(t) ==
    /\ th[t].pc = "check"
    /\ th' = [th EXCEPT ![t].pc =
                IF NeedsHeader(inst[InstOf(t)], TypeOf(th[t].obj)) THEN "header" ELSE "call"]
    /\ UNCHANGED <<mode, inst, ev, h, out, last, hist, gp, vp, lr>>

\* h.printHeader(handler.columns, w)
Header(t) ==
    /\ th[t].pc = "header"
    /\ th' = [th EXCEPT ![t].pc = "setLast",
                        ![t].w = printHeader(Lookup(inst[InstOf(t)], TypeOf(th[t].obj)).columns, @)]
    /\ ev' = [ev EXCEPT ![InstOf(t)] = Append(@, <<"header", TypeOf(th[t].obj)>>)]
    /\ UNCHANGED <<mode, inst, h, out, last, hist, gp, vp, lr>>

\* h.lastType = t
SetLast(t) ==
    /\ th[t].pc = "setLast"
    /\ inst' = [inst EXCEPT ![InstOf(t)] = SetLastType(@, TypeOf(th[t].obj))]
    /\ th' = [th EXCEPT ![t].pc = "call"]
    /\ UNCHANGED <<mode, ev, h, out, last, hist, gp, vp, lr>>

\* handler.printFunc.Call(args)[0]
CallStep(t) ==
    /\ th[t].pc = "call"
    /\ LET w1 == Call(Lookup(inst[InstOf(t)], TypeOf(th[t].obj)).printFunc, th[t].obj, th[t].w)
       IN  th' = [th EXCEPT ![t].pc = "flush", ![t].w = w1, ![t].err = w1.err]
    /\ ev' = [ev EXCEPT ![InstOf(t)] = Append(@, <<"row", TypeOf(th[t].obj)>>)]
    /\ UNCHANGED <<mode, inst, h, out, last, hist, gp, vp, lr>>

\* The deferred w.Flush() and the return; a serialized caller lets go of its lock.
Return(t) ==
    /\ th[t].pc = "flush"
    /\ th' = [th EXCEPT ![t].pc = "idle", ![t].w = Flush(@), ![t].calls = @ + 1]
    /\ mode' = IF mode.kind = "serialized" THEN [mode EXCEPT !.lock = 0] ELSE mode
    /\ UNCHANGED <<inst, ev, h, out, last, hist, gp, vp, lr>>

NextConc ==
    \E t \in Threads :
        \/ \E obj \in ThreadArgs : Begin(t, obj)
        \/ Check(t)
        \/ Header(t)
        \/ SetLast(t)
        \/ CallStep(t)
        \/ Return(t)

SpecConc == InitConc /\ [][NextConc]_vars

(***************************************************************************)
(* Claims about the HumanReadablePrinter, checked under Spec.              *)
(***************************************************************************)
Headers(lines) == {i \in 1..Len(lines) : lines[i].kind = "header"}
Rows(lines) == {i \in 1..Len(lines) : lines[i].kind = "row"}

LastPrint == last.op = "PrintObj"
LastType == TypeOf(last.arg)
LastRegistered == LastPrint /\ LastType \in DOMAIN last.before.handlerMap

\* The last PrintObj call before the i-th that found a handler (0: none).
PrevKnown(i) ==
    LET js == {j \in 1..(i - 1) : hist[j].known}
    IN  IF js = {} THEN 0 ELSE CHOOSE j \in js : \A k \in js : k <= j

\* C1: in a PrintObj call on an object of a registered type a header row is
\* written if and only if noHeaders is false and the object's type differs
\* from the last-printed type (none before the first call); the header is the
\* first line of the call and carries the columns registered for the type.
\* Hence over a session every call of a registered type writes a header
\* exactly when headers are enabled and its type differs from the type of the
\* previous printed object: once per run of one type, and at every call of an
\* alternating sequence.
C1_HeaderIffTypeChange ==
    /\ LastRegistered =>
          /\ HasHeader(last.w.input) <=>
                (~last.before.noHeaders /\ LastType # last.before.lastType)
          /\ Cardinality(Headers(last.w.input)) <= 1
          /\ HasHeader(last.w.input) =>
                /\ last.w.input[1].kind = "header"
                /\ last.w.input[1].cols = last.before.handlerMap[LastType].columns
    /\ \A i \in 1..Len(hist) :
          hist[i].known =>
             (hist[i].hdr <=>
                 /\ ~h.noHeaders
                 /\ \/ PrevKnown(i) = 0
                    \/ hist[PrevKnown(i)].obj.type # hist[i].obj.type)

\* Two objects of one type in a row (one header), then another type (a header).
C1_Witness ==
    /\ Len(hist) = 3
    /\ \A i \in 1..3 : hist[i].known
    /\ hist[1].obj.type = hist[2].obj.type
    /\ hist[3].obj.type # hist[2].obj.type
    /\ hist[1].hdr /\ ~hist[2].hdr /\ hist[3].hdr

\* The scenario of C2: a new printer with headers enabled, a list of two
\* services printed and then a single service, no Handler call in between and
\* a writer that accepts everything.
C2_Scenario ==
    /\ ~h.noHeaders
    /\ last.n = 2
    /\ Len(hist) = 2
    /\ hist[1].obj = Obj("*api.ServiceList", 0, 2)
    /\ hist[2].obj = Obj("*api.Service", 1, 0)
    /\ hist[1].failFrom = 0 /\ hist[2].failFrom = 0

\* C2 as stated: the list writes one header and two rows, and the single
\* service after it one more row and no header: 1 header and 3 rows in all.
C2_NoSecondHeader ==
    C2_Scenario =>
        /\ Cardinality(Headers(out)) = 1
        /\ Cardinality(Rows(out)) = 3
        /\ ~HasHeader(last.w.input)

\* C2 amended: the list writes one header and two rows; the single service is
\* of another type identity (*api.Service, not *api.ServiceList), so its call
\* writes the service header again and then its row: 2 headers and 3 rows.
C2_SecondHeaderForSingular ==
    C2_Scenario =>
        out = << HeaderLine(serviceColumns),
                 RowLine("printService", 1, 5),
                 RowLine("printService", 2, 5),
                 HeaderLine(serviceColumns),
                 RowLine("printService", 1, 5) >>

C2_Witness == C2_Scenario /\ Len(out) = 5

\* A render function that is not func(T, io.Writer) error.
Malformed(f) ==
    \/ f.kind # "func"
    \/ Len(f.ins) # 2
    \/ Len(f.outs) # 1
    \/ f.ins[2] # "io.Writer"
    \/ f.outs[1] # "error"

\* C3: Handler with a malformed render function returns an error and leaves
\* the printer, in particular every entry of the registry, as it was.
C3_MalformedRejected ==
    (last.op = "Handler" /\ Malformed(last.arg.printFunc)) =>
        /\ last.err # Nil
        /\ h = last.before
        /\ Len(out) = last.at

\* A three-parameter function for *api.Service is rejected while a handler a
\* caller registered for *api.Service is in the registry.
C3_Witness ==
    /\ last.op = "Handler"
    /\ last.arg.printFunc = threeParams
    /\ last.err # Nil
    /\ h.handlerMap["*api.Service"].printFunc = printServiceShortFn

\* C4: PrintObj of an object whose type has no handler returns the
\* unknown-type error and hands nothing to the caller's writer, neither a
\* header nor a row: the one write the caller's writer sees is the
\* zero-length write of the deferred flush.
C4_UnknownTypeWritesNothing ==
    (LastPrint /\ LastType \notin DOMAIN last.before.handlerMap) =>
        /\ last.err = errUnknownType
        /\ last.w.input = <<>>
        /\ last.w.written = <<>>
        /\ last.w.attempts = 1
        /\ Len(out) = last.at

\* An unknown-type call after a call that wrote something.
C4_Witness ==
    /\ LastPrint
    /\ LastType = "*api.Endpoints"
    /\ ~last.known
    /\ last.err = errUnknownType
    /\ Len(out) > 0

\* C5: when the caller's writer rejected output of a PrintObj call of a
\* registered type, the call returns a non-nil error.
C5_WriteFailureReported ==
    (LastRegistered /\ last.w.lost > 0) => last.err # Nil

\* C7: a successful Handler call stores exactly its columns and render
\* function under the type of the function's first parameter and leaves every
\* other entry as it was; PrintObj leaves the registry alone and writes the
\* header with the columns, and the rows with the render function, of the
\* entry registered last for the object's type.
C7_LastWriteWins ==
    /\ (last.op = "Handler" /\ last.err = Nil) =>
          LET t == last.arg.printFunc.ins[1]
          IN  /\ DOMAIN h.handlerMap = DOMAIN last.before.handlerMap \cup {t}
              /\ h.handlerMap[t] = last.arg
              /\ \A u \in DOMAIN last.before.handlerMap \ {t} :
                    h.handlerMap[u] = last.before.handlerMap[u]
    /\ LastRegistered =>
          LET e == last.before.handlerMap[LastType]
          IN  /\ h.handlerMap = last.before.handlerMap
              /\ \A i \in Headers(last.w.input) : last.w.input[i].cols = e.columns
              /\ last.w.input = Call(e.printFunc, last.arg,
                                     IF HasHeader(last.w.input)
                                     THEN printHeader(e.columns, NewWriter(last.w.failFrom))
                                     ELSE NewWriter(last.w.failFrom)).input

\* A service is printed by the function a caller registered over the default.
C7_Witness ==
    /\ LastPrint
    /\ LastType = "*api.Service"
    /\ last.before.handlerMap["*api.Service"] =
          [columns |-> <<"ID">>, printFunc |-> printServiceShortFn]
    /\ last.w.input = <<HeaderLine(<<"ID">>), RowLine("printServiceShort", 1, 2)>>

\* The resource shapes with a default handler: the singular type and the
\* list type of each.
Shapes ==
    { <<"*api.Pod", "*api.PodList">>,
      <<"*api.ReplicationController", "*api.ReplicationControllerList">>,
      <<"*api.Service", "*api.ServiceList">>,
      <<"*api.Minion", "*api.MinionList">>,
      <<"*api.Status", "*api.StatusList">>,
      <<"*api.Event", "*api.EventList">> }

PairRegistered(p, shape) ==
    /\ shape[1] \in DOMAIN p.handlerMap
    /\ shape[2] \in DOMAIN p.handlerMap
    /\ p.handlerMap[shape[1]].columns = p.handlerMap[shape[2]].columns

\* C8 as stated: right after NewHumanReadablePrinter every shape, status
\* included, has a singular and a list handler with the same columns, and the
\* last-printed type is none.
C8_EveryShapePaired ==
    last.op = "new" =>
        /\ \A shape \in Shapes : PairRegistered(h, shape)
        /\ h.lastType = Nil

\* C8 amended: right after NewHumanReadablePrinter pod, replication
\* controller, service, minion and event each have a singular and a list
\* handler with the same columns; status has a singular handler only; the
\* registry holds these eleven entries and no other; the last-printed type is
\* none.
C8_PairsExceptStatus ==
    last.op = "new" =>
        /\ \A shape \in Shapes : shape[1] # "*api.Status" => PairRegistered(h, shape)
        /\ "*api.Status" \in DOMAIN h.handlerMap
        /\ h.handlerMap["*api.Status"] = [columns |-> statusColumns, printFunc |-> printStatusFn]
        /\ "*api.StatusList" \notin DOMAIN h.handlerMap
        /\ Cardinality(DOMAIN h.handlerMap) = 11
        /\ \A t \in DOMAIN h.handlerMap :
              /\ h.handlerMap[t].printFunc.ins[1] = t
              /\ Malformed(h.handlerMap[t].printFunc) = FALSE
        /\ h.lastType = Nil

\* A new printer: the event pair is registered, status without a list form.
C8_Witness ==
    /\ last.op = "new"
    /\ h.noHeaders
    /\ PairRegistered(h, <<"*api.Event", "*api.EventList">>)
    /\ "*api.Status" \in DOMAIN h.handlerMap
    /\ "*api.StatusList" \notin DOMAIN h.handlerMap

\* C11: IsVersioned returns false for a HumanReadablePrinter whatever its
\* noHeaders flag, its registry and its last-printed type are, and true for a
\* JSON, a YAML and a template printer; the call leaves the receiver, the
\* HumanReadablePrinter and the output as they were.
C11_IsVersioned ==
    /\ HumanIsVersioned(h) = [p |-> h, ret |-> FALSE]
    /\ last.op = "IsVersioned" =>
          /\ last.ret = FALSE
          /\ h = last.before
          /\ Len(out) = last.at
    /\ last.op = "VersionedIsVersioned" =>
          /\ last.arg \in HeldPrinters
          /\ last.ret = TRUE
          /\ h = last.before
          /\ Len(out) = last.at

\* IsVersioned is asked of a printer that has a caller's handler in its
\* registry and has printed a header with it.
C11_Witness ==
    /\ last.op = "IsVersioned"
    /\ ~last.ret
    /\ h.lastType = "*api.Endpoints"
    /\ ~h.noHeaders
    /\ Len(out) > 0

\* C12: a PrintObj call that writes a header row leaves the object's type as
\* the last-printed type whether or not the render function returned an
\* error; hence, when the previous PrintObj call that found a handler was of
\* type T and failed, a PrintObj call of type T writes no header.
C12_LastTypeKeptOnRenderError ==
    /\ (LastRegistered /\ HasHeader(last.w.input)) => h.lastType = LastType
    /\ \A i \in 1..Len(hist) :
          LET j == PrevKnown(i)
          IN  (/\ hist[i].known
               /\ j # 0
               /\ hist[j].err # Nil
               /\ hist[j].obj.type = hist[i].obj.type) => ~hist[i].hdr

\* With headers enabled, a call whose render function failed after the header
\* was written, and then a call of the same type without a header.
C12_Witness ==
    /\ ~h.noHeaders
    /\ Len(hist) = 2
    /\ hist[1].known /\ hist[1].hdr /\ hist[1].err = errRender
    /\ hist[2].known /\ hist[2].obj.type = hist[1].obj.type
    /\ ~hist[2].hdr
    /\ h.lastType = hist[1].obj.type

\* C13: a PrintObj call on an object of a registered type invokes the render
\* function registered for the type exactly once, after the header row if the
\* call writes one, and returns that function's result: the lines of the call
\* are the header, if any, followed by the lines of one invocation; the call
\* returns an error exactly when the invocation did, and then the same error
\* (a caller's function's own error, or the write error a default function
\* got from the writer).
C13_ReturnsRenderResult ==
    LastRegistered =>
        LET entry == last.before.handlerMap[LastType]
            hdr == HasHeader(last.w.input)
            w0 == NewWriter(last.w.failFrom)
            w1 == IF hdr THEN printHeader(entry.columns, w0) ELSE w0
            r == Call(entry.printFunc, last.arg, w1)
        IN  /\ last.err = r.err
            /\ last.w.input = r.input
            /\ Headers(last.w.input) \subseteq {1}
            /\ \A i \in Rows(last.w.input) : last.w.input[i].of \in
                  {entry.printFunc.impl, "printService", "printMinion"}
            /\ last.arg.idx # 0 => Cardinality(Rows(last.w.input)) = 1
            /\ last.arg.idx = 0 => Cardinality(Rows(last.w.input)) <= last.arg.n
            /\ entry.printFunc.impl = "printEndpointsFailing" => last.err = errRender
            /\ (entry.printFunc.impl # "printEndpointsFailing" /\ last.w.failFrom = 0) =>
                  last.err = Nil
            /\ last.err \in {Nil, errRender, errWrite}

\* A caller's render function returns its own error after the header and its
\* row were written, and PrintObj returns that error.
C13_Witness ==
    /\ LastRegistered
    /\ last.before.handlerMap[LastType].printFunc = printEndpointsFailingFn
    /\ last.err = errRender
    /\ Len(last.w.input) = 2
    /\ last.w.input[1].kind = "header"
    /\ last.w.input[2] = RowLine("printEndpointsFailing", 1, 2)

\* The lines of a call that end a column block: the tabwriter flushes on its
\* own after each of them.
SingleCellLines(lines) == {i \in 1..Len(lines) : lines[i].ncells = 1}

\* C14: every PrintObj call, whether it succeeds, its render function fails or
\* the type is unknown, flushes its tabwriter once on return (beside the
\* flushes the tabwriter does on its own after single-cell lines): when the
\* call has returned nothing is left in the buffer, every line of the call
\* has either reached the caller's writer completely or been cut short by a
\* rejected write, the caller's writer holds what it held before plus what it
\* accepted, and it has seen at least the zero-length write that ends the
\* deferred flush.
C14_FlushedOnEveryPath ==
    LastPrint =>
        /\ last.w.buf = <<>>
        /\ last.w.flushes = 1 + Cardinality(SingleCellLines(last.w.input))
        /\ Len(last.w.input) = Cardinality(Headers(last.w.written))
                                 + Cardinality(Rows(last.w.written)) + last.w.lost
        /\ Len(out) = last.at + Len(last.w.written)
        /\ SubSeq(out, last.at + 1, Len(out)) = last.w.written
        /\ last.w.attempts >= 1
        /\ last.w.failFrom = 0 => (last.w.written = last.w.input /\ last.w.err = Nil)

\* A call whose render function failed: its header and its row were only
\* buffered when the function returned, and have reached the caller's writer.
C14_Witness ==
    /\ LastRegistered
    /\ last.err = errRender
    /\ last.w.flushes = 1
    /\ last.w.buf = <<>>
    /\ Len(last.w.written) = 2
    /\ Len(out) = last.at + 2

\* C16: no Handler, PrintObj or IsVersioned call changes the noHeaders flag
\* the printer was constructed with; on a printer constructed with noHeaders
\* true no call writes a header row, whatever is registered and printed, and
\* the last-printed type stays none.
C16_NoHeadersIsFixed ==
    /\ last.op # "new" => h.noHeaders = last.before.noHeaders
    /\ h.noHeaders =>
          /\ h.lastType = Nil
          /\ Headers(out) = {}
          /\ ~HasHeader(last.w.input)
          /\ \A i \in 1..Len(hist) : ~hist[i].hdr

\* A printer with noHeaders true has printed a service and, with a handler a
\* caller registered, an object of another type: two rows and no header.
C16_Witness ==
    /\ h.noHeaders
    /\ Len(hist) = 2
    /\ hist[1].known /\ hist[1].obj.type = "*api.Service"
    /\ hist[2].known /\ hist[2].obj.type = "*api.Endpoints"
    /\ Cardinality(Rows(out)) = 2
    /\ Len(out) = 2
    /\ h.lastType = Nil

\* The scenario of C17: a new printer with headers enabled and writers that
\* accept everything; an object of a registered type T is printed, then an
\* object of a type without a handler, then an object of type T again.
C17_Scenario ==
    /\ ~h.noHeaders
    /\ last.n = 3
    /\ Len(hist) = 3
    /\ hist[1].known /\ ~hist[2].known /\ hist[3].known
    /\ hist[3].obj.type = hist[1].obj.type
    /\ \A i \in 1..3 : hist[i].failFrom = 0

\* C17: a PrintObj call that fails with the unknown-type error leaves the
\* printer, its last-printed type and its registry, as it was; so in the
\* sequence print T, print an object of an unregistered type, print T, with
\* headers enabled, the first call writes the header of T and the third none:
\* one header row in all.
C17_UnknownTypeIsNoTransition ==
    /\ (LastPrint /\ ~last.known) =>
          /\ last.err = errUnknownType
          /\ h = last.before
    /\ C17_Scenario =>
          /\ hist[1].hdr /\ ~hist[2].hdr /\ ~hist[3].hdr
          /\ Cardinality(Headers(out)) = 1
          /\ out[1].kind = "header"
          /\ h.lastType = hist[1].obj.type

\* A service, an object of the unregistered type and a service again: the
\* header and two rows.
C17_Witness ==
    /\ C17_Scenario
    /\ hist[1].obj = Obj("*api.Service", 1, 0)
    /\ hist[2].obj.type = "*api.Endpoints"
    /\ hist[2].err = errUnknownType
    /\ out = << HeaderLine(serviceColumns),
                RowLine("printService", 1, 5),
                RowLine("printService", 1, 5) >>

\* The scenario of C18: with headers enabled and writers that accept
\* everything, an object of type T is printed with a header, the handler of T
\* is replaced by one with other columns (the header in the output is not
\* that of the entry now registered), and an object of type T is printed.
C18_Scenario ==
    /\ ~h.noHeaders
    /\ last.n = 3
    /\ LastRegistered
    /\ Len(hist) = 2
    /\ hist[1].known /\ hist[1].hdr
    /\ hist[1].obj.type = LastType
    /\ hist[1].failFrom = 0 /\ hist[2].failFrom = 0
    /\ out[1].kind = "header"
    /\ out[1].cols # h.handlerMap[LastType].columns

\* C18: PrintObj leaves the registry (and the noHeaders flag) as it was;
\* Handler, accepted or rejected, leaves the last-printed type and the output
\* as they were; so after the handler of the last-printed type T was replaced
\* by one with other columns, a PrintObj call of type T writes no header: its
\* row, written by the new render function, follows under the old header.
C18_RegistryAndLastTypeFrames ==
    /\ LastPrint =>
          /\ h.handlerMap = last.before.handlerMap
          /\ h.noHeaders = last.before.noHeaders
    /\ last.op = "Handler" =>
          /\ h.lastType = last.before.lastType
          /\ h.noHeaders = last.before.noHeaders
          /\ Len(out) = last.at
          /\ last.w.input = <<>>
    /\ C18_Scenario =>
          /\ ~HasHeader(last.w.input)
          /\ Headers(out) = {1}
          /\ out[Len(out)].of = h.handlerMap[LastType].printFunc.impl

\* A service printed under the default header, the service handler replaced
\* by one with the single column ID, and a service printed again.
C18_Witness ==
    /\ C18_Scenario
    /\ LastType = "*api.Service"
    /\ h.handlerMap["*api.Service"] = [columns |-> <<"ID">>, printFunc |-> printServiceShortFn]
    /\ out = << HeaderLine(serviceColumns),
                RowLine("printService", 1, 5),
                RowLine("printServiceShort", 1, 2) >>

(***************************************************************************)
(* Claims about the factory, checked under SpecFactory.                    *)
(***************************************************************************)
\* C6: GetPrinter with format "json" or "yaml" succeeds with a printer of
\* that format bound to the given version; with format "" it succeeds and
\* returns the default printer it was given, whatever the template source;
\* with format "template" or "templatefile" and an empty template source it
\* fails; with any other format outside the five it fails as not recognized;
\* and whenever it returns an error it returns no printer.  None of these
\* outcomes depends on the file system.
C6_GetPrinterOutcome ==
    gp.called =>
        /\ gp.format = "json" => (gp.err = Nil /\ gp.printer = JSONPrinter(gp.version))
        /\ gp.format = "yaml" => (gp.err = Nil /\ gp.printer = YAMLPrinter(gp.version))
        /\ gp.format = "" => (gp.err = Nil /\ gp.printer = gp.defaultPrinter)
        /\ (gp.format \in {"template", "templatefile"} /\ gp.templateFile = <<>>) =>
              gp.err \in {errNoTemplate, errNoTemplateFile}
        /\ gp.format \notin {"json", "yaml", "template", "templatefile", ""} =>
              gp.err = errNotRecognized
        /\ gp.err # Nil => gp.printer = NoPrinter
        /\ (gp.err = Nil /\ gp.format \in {"template", "templatefile"}) =>
              (gp.printer.kind = "TemplatePrinter" /\ gp.printer.version = gp.version)

\* The default printer comes back for format "" although a template source
\* was given.
C6_Witness ==
    /\ gp.called
    /\ gp.format = ""
    /\ gp.templateFile # <<>>
    /\ gp.defaultPrinter = HumanPrinter(TRUE)
    /\ gp.printer = HumanPrinter(TRUE)
    /\ gp.err = Nil

(***************************************************************************)
(* Claims about the versioned printers, checked under SpecVersioned.       *)
(***************************************************************************)
\* C10: when the version lookup or the encoder fails, PrintObj of the JSON,
\* YAML and template printers returns that very error and makes no write;
\* when both succeed the JSON printer makes exactly one write, whose content
\* ends with a newline, and returns the result of that write.
C10_EncodeFailureAndJSONWrite ==
    vp.called =>
        /\ vp.env.lookup # Nil => (vp.err = vp.env.lookup /\ vp.tries = <<>>)
        /\ (vp.env.lookup = Nil /\ vp.env.encode # Nil) =>
              (vp.err = vp.env.encode /\ vp.tries = <<>>)
        /\ (vp.printer.kind = "JSONPrinter" /\ vp.env.lookup = Nil /\ vp.env.encode = Nil) =>
              /\ Len(vp.tries) = 1
              /\ vp.tries[1].content # <<>>
              /\ vp.tries[1].content[Len(vp.tries[1].content)] = "\n"
              /\ vp.err = (IF vp.tries[1].ok THEN Nil ELSE errWrite)

\* The JSON printer writes an indented object once, and the write fails.
C10_Witness ==
    /\ vp.called
    /\ vp.printer.kind = "JSONPrinter"
    /\ vp.env.lookup = Nil /\ vp.env.encode = Nil
    /\ Len(vp.tries) = 1
    /\ Len(vp.tries[1].content) > Len(vp.env.data) + 1
    /\ ~vp.tries[1].ok
    /\ vp.err = errWrite

(***************************************************************************)
(* Claims about concurrent callers, checked under SpecConc.                *)
(***************************************************************************)
\* The header event nearest before event k of a log (0: none).
HeaderBefore(log, k) ==
    LET js == {j \in 1..(k - 1) : log[j][1] = "header"}
    IN  IF js = {} THEN 0 ELSE CHOOSE j \in js : \A i \in js : i <= j

\* The header-on-type-transition rule on the log of an instance: a header is
\* not repeated for the type of the header before it, and the rows of an
\* object stand under a header of the object's type.
NoRepeatedHeader(log) ==
    \A k \in 1..Len(log) :
        log[k][1] = "header" =>
            (HeaderBefore(log, k) = 0 \/ log[HeaderBefore(log, k)][2] # log[k][2])

RowsUnderOwnHeader(log) ==
    \A k \in 1..Len(log) :
        log[k][1] = "row" =>
            (HeaderBefore(log, k) # 0 /\ log[HeaderBefore(log, k)][2] = log[k][2])

\* C9: when the PrintObj calls on an instance are serialized by the callers,
\* or every thread prints on an instance of its own, the header rule holds on
\* every instance under every interleaving (with headers suppressed, no
\* header is written at all); only calls sharing an instance without
\* synchronization can break it.
C9_RuleHoldsUnlessShared ==
    mode.kind # "shared" =>
        \A i \in Threads :
            /\ NoRepeatedHeader(ev[i])
            /\ inst[i].noHeaders => \A k \in 1..Len(ev[i]) : ev[i][k][1] # "header"
            /\ ~inst[i].noHeaders => RowsUnderOwnHeader(ev[i])

\* Two unsynchronized calls for one type on a shared instance both wrote a
\* header, and both have returned.
C9_Witness ==
    /\ mode.kind = "shared"
    /\ ~NoRepeatedHeader(ev[1])
    /\ \A t \in Threads : th[t].pc = "idle" /\ th[t].calls = 1
    /\ \A t \in Threads : TypeOf(th[t].obj) = "*api.Service"

(***************************************************************************)
(* Claims about the list render functions, checked under SpecLists.        *)
(***************************************************************************)
\* The row the singular render function of a list function writes for item i.
ItemRow(impl, i) ==
    CASE impl = "printPodList" -> RowLine("printPod", i, 5)
      [] impl = "printReplicationControllerList" ->
            RowLine("printReplicationController", i, 4)
      [] impl = "printServiceList" -> RowLine("printService", i, 5)
      [] impl = "printMinionList" -> RowLine("printMinion", i, 1)
      [] impl = "printEventList" -> RowLine("printEvent", i, 5)

\* The first item whose row the caller's writer rejects while the list is
\* rendered (0: none).  On a direct writer each row is one write.  On a
\* tabwriter the rows of printMinion, being single cells, are flushed one by
\* one, with three writes each (the name, the newline and the zero-length
\* write that ends the flush); the other rows stay in the tabwriter's buffer.
FirstRejected ==
    LET k == IF lr.direct THEN lr.failFrom
             ELSE IF lr.printFunc.impl = "printMinionList" THEN (lr.failFrom + 2) \div 3
             ELSE 0
    IN  IF k \in 1..lr.list.n THEN k ELSE 0

\* C15: a default list render function calls the singular render function
\* once per item, in list order; when the call for item k returns an error
\* the list function returns that error at once, the rows of the items before
\* k are written and no item after k is rendered; without an error every item
\* is rendered and the function returns nil, and an empty list writes no row
\* and returns nil.
C15_ListStopsAtFirstError ==
    lr.called =>
        LET k == FirstRejected
            m == IF k = 0 THEN lr.list.n ELSE k
        IN  /\ Len(lr.w.input) = m
            /\ \A i \in 1..m : lr.w.input[i] = ItemRow(lr.printFunc.impl, i)
            /\ lr.w.err = (IF k = 0 THEN Nil ELSE errWrite)
            /\ k # 0 =>
                  /\ SubSeq(lr.w.written, 1, k - 1) = SubSeq(lr.w.input, 1, k - 1)
                  /\ Len(lr.w.written) \in {k - 1, k}
                  /\ lr.direct => Len(lr.w.written) = k - 1
            /\ (k = 0 /\ lr.direct) => lr.w.written = lr.w.input
            /\ lr.list.n = 0 => (lr.w.input = <<>> /\ lr.w.err = Nil)

\* A pod list of three items on a direct writer that rejects its second
\* write: the first row is written, the second fails, the third is not
\* rendered.
C15_Witness ==
    /\ lr.called
    /\ lr.printFunc = printPodListFn
    /\ lr.list.n = 3
    /\ lr.direct
    /\ lr.w.err = errWrite
    /\ lr.w.written = <<RowLine("printPod", 1, 5)>>
    /\ Len(lr.w.input) = 2

====
